---- MODULE Spec2Model ----
(***************************************************************************)
(* State-machine model of app/rate_limit.py (RateLimitHandler): the        *)
(* sliding-window usage ledger, the server-health detector, the bounded    *)
(* concurrency gate, the adaptive backoff and the smart_retry loop; and of  *)
(* app/feedback/storage.py (FeedbackStorage): the cache and the files.     *)
(*                                                                         *)
(* Time is the integer number of seconds since construction; time.time()   *)
(* and datetime.now() read the same clock `now`.  Durations of sleeps are  *)
(* kept in hundredths of a second, so that the backoff product             *)
(* base * 1.5 * 2.0 * (1 - 0.1 * streak) is an exact integer.              *)
(*                                                                         *)
(* Concurrency is asyncio's: a task runs without interruption from one     *)
(* suspension point (an await that really suspends) to the next, so every  *)
(* action below is the code between two suspension points of one task.     *)
(***************************************************************************)
EXTENDS Integers, Sequences, FiniteSets, TLC

----------------------------------------------------------------------------
(* Configuration: RateLimitHandler.__init__ parameters.                     *)

tokens_per_minute == 100
window_size == 60
max_retries == 3
initial_backoff == 1
max_backoff == 60
backoff_multiplier == 2
max_concurrent == 2
server_check_interval == 60

(* Literals of the code. *)
OVERLOAD_CODE == 529          \* record_error: error_code == 529
COOLDOWN_SECONDS == 5         \* smart_retry: asyncio.sleep(5)
SLOT_POLL_SECONDS == 1        \* wait_for_available_slot: asyncio.sleep(1)
DECAY_AFTER_SECONDS == 300    \* check_server_status: time_since_error > 300
RECENT_ERROR_SECONDS == 60    \* check_server_status: time_since_error < 60
SECONDS_PER_DAY == 86400      \* timedelta.seconds is the remainder below one day
PEAK_MINUTES == 30            \* _calculate_smart_backoff: timedelta(minutes=30)

MAX_ATTEMPTS == 3             \* RetryPolicy.__init__: max_attempts = 3
NoTime == -1                  \* ServerStatus.last_error_time = None
NoCode == 0                   \* an exception without a status_code attribute
NoFlow == 0                   \* asyncio.Lock not held

(* Bounds of the model. *)
MaxTimeGate == 3
MaxTimeRun == 3
MaxTimeSeq == 80
MaxStreakRun == 1
MaxStreakSeq == 2
MaxErrors == 4
MaxTicksHealth == 4
MaxRecords == 3
MaxPeaks == 2
MaxTicksLedger == 2
MaxRetryCount == 4
MaxSuccessStreak == 6
MaxTimeLive == 305
MaxSubtasks == 3

Flows == {1, 2, 3}
ErrorCodes == {NoCode, 500, OVERLOAD_CODE}

VARIABLES
    now,                  \* the clock, seconds
    ticks,                \* number of clock advances so far (bounds the health runs)
    server_status,        \* ServerStatus: last_check, is_overloaded, error_count, last_error_time
    concurrent_requests,  \* self.concurrent_requests
    lock,                 \* self._lock: the flow holding it, or NoFlow
    lock_waiters,         \* self._lock's FIFO of flows waiting to acquire it
    usage_history,        \* self.usage_history: deque of TokenUsage
    peak_usage_times,     \* self.peak_usage_times
    retry_stats,          \* self.retry_stats: request_id -> RetryStats, or absent
    pc,                   \* where each flow is suspended
    wake,                 \* the time (hundredths of a second) a sleeping flow's sleep ends
    op_result,            \* how a flow's latest operation ended: returned, or raised (and the code)
    history,              \* how each operation of the flow's current smart_retry ended, in order
    ret,                  \* what a flow's last call returned or raised
    execs,                \* executions of operation in the flow's current smart_retry
    fresh,                \* whether the flow's current smart_retry created its RetryStats
    call,                 \* a flow's latest wait_if_needed call: argument, start, end
    recorded,             \* every TokenUsage ever appended (history of record_usage)
    last_op,              \* the last health-monitor call and what it observed
    backoff_call,         \* a direct _calculate_smart_backoff call: configuration, results
    cache,                \* FeedbackStorage._cache: feedback id -> Feedback, or absent
    storage_files,        \* the files <id>.json of storage_dir: id -> content, or absent
    storage_op,           \* the last FeedbackStorage call and what it returned
    ledger_ret,           \* what can_make_request / get_available_tokens returned, when
                          \* it was the last thing that happened to the ledger
    runner                \* EnhancedMCPRunner.execute_subtasks: the call in progress

vars == <<now, ticks, server_status, concurrent_requests, lock, lock_waiters,
          usage_history, peak_usage_times, retry_stats, pc, wake, op_result,
          history, ret, execs, fresh, call, recorded, last_op, backoff_call,
          cache, storage_files, storage_op, ledger_ret, runner>>

gateVars == <<concurrent_requests, lock, lock_waiters>>
ledgerVars == <<usage_history, peak_usage_times, recorded>>
flowVars == <<pc, wake, op_result, history, ret, execs, fresh, call>>
storageVars == <<cache, storage_files, storage_op>>

Max(a, b) == IF a >= b THEN a ELSE b
Min(a, b) == IF a <= b THEN a ELSE b

RECURSIVE Pow(_, _)
Pow(b, e) == IF e = 0 THEN 1 ELSE b * Pow(b, e - 1)

(* (a - b).seconds of two datetimes a >= b: the seconds field of the       *)
(* timedelta, which leaves out whole days.                                  *)
TimedeltaSeconds(a, b) == (a - b) % SECONDS_PER_DAY

NoRet == [kind |-> "none", exec |-> 0, code |-> NoCode]
NoResult == [outcome |-> "none", code |-> NoCode]
NoCall == [tokens |-> 0, at |-> NoTime, slept |-> FALSE, done_at |-> NoTime]
(* retry_stats.get(request_id) of a request_id that has no RetryStats.      *)
(* RetryStats.last_retry_time is left out: smart_retry writes it (at        *)
(* creation and after each backoff sleep) and nothing ever reads it.        *)
NoStats == [present |-> FALSE, retry_count |-> 0, backoff_factor |-> 1,
            success_streak |-> 0]
(* last_op: the last call on the health monitor (op, at, result), the     *)
(* last_check it found (found_last_check), and the check_server_status call *)
(* before it when no record_error came between the two (prev_at, the time   *)
(* of that call; prev_overloaded, the is_overloaded it left).  chk_at and   *)
(* chk_overloaded are the same for the most recent check.                   *)
NoOp == [op |-> "none", at |-> 0, result |-> TRUE, found_last_check |-> 0,
         prev_at |-> NoTime, prev_overloaded |-> FALSE,
         chk_at |-> NoTime, chk_overloaded |-> FALSE]

(* The retry settings __init__ stores, the multiplier as a fraction. *)
Config == [initial_backoff |-> initial_backoff, max_backoff |-> max_backoff,
           backoff_multiplier |-> [num |-> backoff_multiplier, den |-> 1]]

(* backoff_call: the settings of the handler _calculate_smart_backoff is    *)
(* called on directly, what the last call returned (d) and what the call    *)
(* before it returned when only retry_count was raised by one between the   *)
(* two (d_prev); NoTime where there is no such call.                        *)
NoBackoffCall == [cfg |-> Config, d |-> NoTime, d_prev |-> NoTime]

(* FeedbackStorage: the ids, types and severities of the feedbacks stored.  *)
(* A Feedback is [id, type, severity] with enum members; the file of a      *)
(* feedback holds its to_dict(): the enum values.                           *)
FeedbackIds == {"fb1", "fb2"}
FeedbackTypes == {"EXECUTION", "PERFORMANCE"}
FeedbackSeverities == {"MEDIUM", "HIGH"}
Feedbacks == [id : FeedbackIds, type : FeedbackTypes, severity : FeedbackSeverities]

NoFeedback == [id |-> "", type |-> "", severity |-> ""]    \* _cache has no such key
NoFile == [kind |-> "none"]                                \* the path does not exist
CorruptFile == [kind |-> "corrupt"]                        \* a file json.load rejects
NoLedgerRet == [op |-> "none", tokens |-> 0, result |-> 0]
(* execute_subtasks before it is called: status is where the call is        *)
(* ("idle", "running", "returned", "raised"), n the number of subtasks, i    *)
(* the subtask the for loop is at, results the list built so far (the        *)
(* subtasks' positions stand for their task ids), started the subtasks whose *)
(* execution was started, in order, and attempt_count the RetryPolicy's      *)
(* attempt_count of each subtask's id.                                       *)
NoRunner == [status |-> "idle", n |-> 0, i |-> 0, results |-> <<>>,
             started |-> <<>>, attempt_count |-> [k \in 1..MaxSubtasks |-> 0]]
NoStorageOp == [op |-> "none", id |-> "", io |-> "ok", result |-> TRUE,
                was_cached |-> FALSE, had_file |-> FALSE]

(* __init__ of RateLimitHandler, and of a FeedbackStorage on an empty      *)
(* directory.                                                               *)
Init ==
    /\ now = 0
    /\ ticks = 0
    /\ server_status = [last_check |-> 0, is_overloaded |-> FALSE,
                        error_count |-> 0, last_error_time |-> NoTime]
    /\ concurrent_requests = 0
    /\ lock = NoFlow
    /\ lock_waiters = <<>>
    /\ usage_history = <<>>
    /\ peak_usage_times = <<>>
    /\ retry_stats = [r \in Flows |-> NoStats]
    /\ pc = [f \in Flows |-> "idle"]
    /\ wake = [f \in Flows |-> 0]
    /\ op_result = [f \in Flows |-> NoResult]
    /\ history = [f \in Flows |-> <<>>]
    /\ ret = [f \in Flows |-> NoRet]
    /\ execs = [f \in Flows |-> 0]
    /\ fresh = [f \in Flows |-> FALSE]
    /\ call = [f \in Flows |-> NoCall]
    /\ recorded = <<>>
    /\ last_op = NoOp
    /\ backoff_call = NoBackoffCall
    /\ cache = [id \in FeedbackIds |-> NoFeedback]
    /\ storage_files = [id \in FeedbackIds |-> NoFile]
    /\ storage_op = NoStorageOp
    /\ ledger_ret = NoLedgerRet
    /\ runner = NoRunner

----------------------------------------------------------------------------
(* ServerHealthMonitor *)

(* Variant of ShouldReevaluate that re-evaluates after half the interval. *)
ShouldReevaluateHalfInterval(ss, t) ==
    \/ 2 * TimedeltaSeconds(t, ss.last_check) >= server_check_interval
    \/ ss.is_overloaded

(* Variant of ShouldReevaluate that drops the interval test. *)
ShouldReevaluateAlways(ss, t) ==
    \/ TimedeltaSeconds(t, ss.last_check) >= 0
    \/ ss.is_overloaded

(* The guard of check_server_status: the interval has passed, or the       *)
(* server is marked overloaded.                                             *)
ShouldReevaluate(ss, t) ==
    \/ TimedeltaSeconds(t, ss.last_check) >= server_check_interval
    \/ ss.is_overloaded

(* `time_since_error and time_since_error < 60`: Python's truth value of   *)
(* None and of 0 is false.                                                  *)
RecentError(tse) == tse # NoTime /\ tse # 0 /\ tse < RECENT_ERROR_SECONDS

(* check_server_status: the ServerStatus it leaves. *)
CheckServerStatus(ss, t) ==
    IF ShouldReevaluate(ss, t)
    THEN LET tse == IF ss.last_error_time # NoTime
                    THEN TimedeltaSeconds(t, ss.last_error_time)
                    ELSE NoTime
             cnt == IF tse # NoTime /\ tse > DECAY_AFTER_SECONDS
                    THEN Max(0, ss.error_count - 1)
                    ELSE ss.error_count
         IN [last_check |-> t,
             is_overloaded |-> (cnt >= 3 \/ RecentError(tse)),
             error_count |-> cnt,
             last_error_time |-> ss.last_error_time]
    ELSE ss

(* Variant of RecordError that counts every status code. *)
RecordErrorAnyCode(ss, code, t) ==
    [ss EXCEPT !.is_overloaded = TRUE,
               !.error_count = @ + 1,
               !.last_error_time = t]

(* record_error: the ServerStatus it leaves. *)
RecordError(ss, code, t) ==
    IF code = OVERLOAD_CODE
    THEN [ss EXCEPT !.is_overloaded = TRUE,
                    !.error_count = @ + 1,
                    !.last_error_time = t]
    ELSE ss

HealthTicks == {30, 60, 301, 86340}

(* A caller invokes check_server_status(). *)
CheckStatusCall ==
    LET after == CheckServerStatus(server_status, now)
    IN /\ server_status' = after
       /\ last_op' = [op |-> "check", at |-> now,
                      result |-> ~after.is_overloaded,
                      found_last_check |-> server_status.last_check,
                      prev_at |-> last_op.chk_at,
                      prev_overloaded |-> last_op.chk_overloaded,
                      chk_at |-> now,
                      chk_overloaded |-> after.is_overloaded]
       /\ UNCHANGED <<now, ticks, gateVars, ledgerVars, retry_stats, flowVars,
                      backoff_call, storageVars, ledger_ret, runner>>

(* A caller invokes record_error(code). *)
RecordErrorCall(code) ==
    /\ server_status.error_count < MaxErrors
    /\ server_status' = RecordError(server_status, code, now)
    /\ last_op' = [op |-> "record_error", at |-> now, result |-> TRUE,
                   found_last_check |-> server_status.last_check,
                   prev_at |-> NoTime, prev_overloaded |-> FALSE,
                   chk_at |-> NoTime, chk_overloaded |-> FALSE]
    /\ UNCHANGED <<now, ticks, gateVars, ledgerVars, retry_stats, flowVars,
                   backoff_call, storageVars, ledger_ret, runner>>

(* The clock advances between two calls on the health monitor. *)
TickHealth(d) ==
    /\ ticks < MaxTicksHealth
    /\ now' = now + d
    /\ ticks' = ticks + 1
    /\ UNCHANGED <<server_status, gateVars, ledgerVars, retry_stats, flowVars, last_op,
                   backoff_call, storageVars, ledger_ret, runner>>

NextHealth ==
    \/ CheckStatusCall
    \/ \E code \in ErrorCodes \ {NoCode} : RecordErrorCall(code)
    \/ \E d \in HealthTicks : TickHealth(d)

SpecHealth == Init /\ [][NextHealth]_vars

----------------------------------------------------------------------------
(* BackoffCalculator *)

(* any(current_time - peak_time <= timedelta(minutes=30) ...) *)
IsPeakTime(peaks, t) ==
    \E i \in 1..Len(peaks) : t - peaks[i] <= PEAK_MINUTES * 60

(* Variant of BaseBackoffOf without the cap at max_backoff. *)
BaseBackoffNoCap(cfg, rc, q) ==
    (q * cfg.initial_backoff * Pow(cfg.backoff_multiplier.num, rc))
        \div Pow(cfg.backoff_multiplier.den, rc)

(* Variant of BaseBackoffOf that falls back to initial_backoff once the     *)
(* product passes max_backoff.                                              *)
BaseBackoffWrap(cfg, rc, q) ==
    LET raw == (q * cfg.initial_backoff * Pow(cfg.backoff_multiplier.num, rc))
                   \div Pow(cfg.backoff_multiplier.den, rc)
    IN IF raw > q * cfg.max_backoff THEN q * cfg.initial_backoff ELSE raw

(* min(initial_backoff * backoff_multiplier ** retry_count, max_backoff)    *)
(* for the settings cfg, in units of 1/q second; q is a multiple of         *)
(* 100 * den ** rc, which makes every product of the computation exact.     *)
BaseBackoffOf(cfg, rc, q) ==
    Min((q * cfg.initial_backoff * Pow(cfg.backoff_multiplier.num, rc))
            \div Pow(cfg.backoff_multiplier.den, rc),
        q * cfg.max_backoff)

(* The base backoff of this handler, in hundredths of a second. *)
BaseBackoff(rc) == BaseBackoffOf(Config, rc, 100)

(* Variant of SmartBackoffOf that treats a request_id without RetryStats as *)
(* one with fresh RetryStats after one failure (retry_count 1).            *)
SmartBackoffDefaultStats(cfg, st, overloaded, peak, q) ==
    LET server_multiplier == IF overloaded THEN 2 ELSE 1
        backoff_reduction == Min(5, st.success_streak)
        base == BaseBackoffOf(cfg, IF st.present THEN st.retry_count ELSE 1, q)
        peaked == IF peak THEN (base * 15) \div 10 ELSE base
        scaled == peaked * server_multiplier
        reduced == (scaled * (10 - backoff_reduction)) \div 10
    IN Max(q * cfg.initial_backoff, reduced)

(* Variant of SmartBackoffOf that caps the product of base and multipliers  *)
(* instead of the base.                                                     *)
SmartBackoffCapLast(cfg, st, overloaded, peak, q) ==
    IF ~st.present
    THEN q * cfg.initial_backoff
    ELSE LET server_multiplier == IF overloaded THEN 2 ELSE 1
             backoff_reduction == Min(5, st.success_streak)     \* tenths
             raw == BaseBackoffNoCap(cfg, st.retry_count, q)
             peaked == IF peak THEN (raw * 15) \div 10 ELSE raw
             scaled == Min(peaked * server_multiplier, q * cfg.max_backoff)
             reduced == (scaled * (10 - backoff_reduction)) \div 10
         IN Max(q * cfg.initial_backoff, reduced)

(* _calculate_smart_backoff for the settings cfg, the RetryStats st (or     *)
(* none), server_status.is_overloaded and is_peak_time, in units of 1/q     *)
(* second.                                                                  *)
SmartBackoffOf(cfg, st, overloaded, peak, q) ==
    IF ~st.present
    THEN q * cfg.initial_backoff
    ELSE LET server_multiplier == IF overloaded THEN 2 ELSE 1
             backoff_reduction == Min(5, st.success_streak)     \* tenths
             base == BaseBackoffOf(cfg, st.retry_count, q)
             peaked == IF peak THEN (base * 15) \div 10 ELSE base
             scaled == peaked * server_multiplier
             reduced == (scaled * (10 - backoff_reduction)) \div 10
         IN Max(q * cfg.initial_backoff, reduced)

(* _calculate_smart_backoff of this handler, in hundredths of a second. *)
CalculateSmartBackoff(st, ss, peaks, t) ==
    SmartBackoffOf(Config, st, ss.is_overloaded, IsPeakTime(peaks, t), 100)

(* _calculate_smart_backoff called directly, on handlers of different       *)
(* retry settings, with every RetryStats, health and peak state.            *)

InitialBackoffs == {1, 2, 10}
MaxBackoffs == {1, 3, 60}
Multipliers == {[num |-> 1, den |-> 2], [num |-> 1, den |-> 1],
                [num |-> 3, den |-> 2], [num |-> 2, den |-> 1]}
BackoffConfigs ==
    [initial_backoff : InitialBackoffs, max_backoff : MaxBackoffs,
     backoff_multiplier : Multipliers]
BackoffStats ==
    {NoStats} \cup [present : {TRUE}, retry_count : 0..MaxRetryCount,
                    backoff_factor : {1}, success_streak : 0..MaxSuccessStreak]
BackoffNows == {0, 1800, 1801}
BackoffPeaks == {<<>>, <<0>>}

(* The unit of the durations of backoff_call: 1/BackoffUnit second. *)
BackoffUnit == 100 * Pow(2, MaxRetryCount)

(* A handler with some retry settings, at some time after construction:     *)
(* the server is healthy or a 529 error has just been recorded, a peak was  *)
(* recorded at time 0 or none, and request_id 1 has some RetryStats or none.*)
InitBackoff ==
    /\ now \in BackoffNows
    /\ ticks = 0
    /\ server_status \in
          {[last_check |-> 0, is_overloaded |-> FALSE, error_count |-> 0,
            last_error_time |-> NoTime],
           [last_check |-> 0, is_overloaded |-> TRUE, error_count |-> 1,
            last_error_time |-> now]}
    /\ concurrent_requests = 0
    /\ lock = NoFlow
    /\ lock_waiters = <<>>
    /\ usage_history = <<>>
    /\ peak_usage_times \in BackoffPeaks
    /\ \E st \in BackoffStats :
          retry_stats = [r \in Flows |-> IF r = 1 THEN st ELSE NoStats]
    /\ pc = [f \in Flows |-> "idle"]
    /\ wake = [f \in Flows |-> 0]
    /\ op_result = [f \in Flows |-> NoResult]
    /\ history = [f \in Flows |-> <<>>]
    /\ ret = [f \in Flows |-> NoRet]
    /\ execs = [f \in Flows |-> 0]
    /\ fresh = [f \in Flows |-> FALSE]
    /\ call = [f \in Flows |-> NoCall]
    /\ recorded = <<>>
    /\ last_op = NoOp
    /\ \E cfg \in BackoffConfigs :
          backoff_call = [cfg |-> cfg, d |-> NoTime, d_prev |-> NoTime]
    /\ cache = [id \in FeedbackIds |-> NoFeedback]
    /\ storage_files = [id \in FeedbackIds |-> NoFile]
    /\ storage_op = NoStorageOp
    /\ ledger_ret = NoLedgerRet
    /\ runner = NoRunner

(* A caller invokes _calculate_smart_backoff(1). *)
BackoffCall ==
    /\ backoff_call' =
          [backoff_call EXCEPT
              !.d = SmartBackoffOf(backoff_call.cfg, retry_stats[1],
                                   server_status.is_overloaded,
                                   IsPeakTime(peak_usage_times, now), BackoffUnit)]
    /\ UNCHANGED <<now, ticks, server_status, gateVars, ledgerVars, retry_stats,
                   flowVars, last_op, storageVars, ledger_ret, runner>>

(* stats.retry_count += 1 (the except block of smart_retry), after a call   *)
(* of _calculate_smart_backoff.                                             *)
RetryCountUp ==
    /\ retry_stats[1].present
    /\ retry_stats[1].retry_count < MaxRetryCount
    /\ backoff_call.d # NoTime
    /\ retry_stats' = [retry_stats EXCEPT ![1].retry_count = @ + 1]
    /\ backoff_call' = [backoff_call EXCEPT !.d = NoTime, !.d_prev = backoff_call.d]
    /\ UNCHANGED <<now, ticks, server_status, gateVars, ledgerVars, flowVars, last_op,
                   storageVars, ledger_ret, runner>>

NextBackoff ==
    \/ BackoffCall
    \/ RetryCountUp

SpecBackoff == InitBackoff /\ [][NextBackoff]_vars

----------------------------------------------------------------------------
(* ConcurrencyGate and RetryCoordinator.                                    *)
(*                                                                          *)
(* A flow is one asyncio task.  Flow f uses request_id f: callers serialize *)
(* the smart_retry calls of one request_id.  The code a flow runs between   *)
(* two suspension points is computed on a record s of everything it may     *)
(* touch (Cur), and written back by Apply.                                  *)

(* The suspension points that are a sleep, and those that wait for the     *)
(* lock.                                                                    *)
SleepPcs == {"cooldown", "backoff", "slot_sleep", "acq_sleep"}
LockPcs == {"lock_wait", "acq_lock_wait", "release_wait", "rel_lock_wait"}

Cur(f) ==
    [pc |-> pc[f], wake |-> wake[f], op_result |-> op_result[f],
     history |-> history[f], ret |-> ret[f],
     execs |-> execs[f], fresh |-> fresh[f], ss |-> server_status,
     stats |-> retry_stats[f],
     gate |-> [c |-> concurrent_requests, lock |-> lock, waiters |-> lock_waiters]]

Apply(f, s) ==
    /\ pc' = [pc EXCEPT ![f] = s.pc]
    /\ wake' = [wake EXCEPT ![f] = IF s.pc \in SleepPcs THEN s.wake ELSE 0]
    /\ op_result' = [op_result EXCEPT ![f] = s.op_result]
    /\ history' = [history EXCEPT ![f] = s.history]
    /\ ret' = [ret EXCEPT ![f] = s.ret]
    /\ execs' = [execs EXCEPT ![f] = s.execs]
    /\ fresh' = [fresh EXCEPT ![f] = s.fresh]
    /\ server_status' = s.ss
    /\ retry_stats' = [retry_stats EXCEPT ![f] = s.stats]
    /\ concurrent_requests' = s.gate.c
    /\ lock' = s.gate.lock
    /\ lock_waiters' = s.gate.waiters
    /\ UNCHANGED <<now, ticks, ledgerVars, call, last_op, backoff_call,
                   storageVars, ledger_ret, runner>>

(* asyncio.sleep(seconds): the flow is suspended at `at` until the clock    *)
(* has passed now + seconds.                                                *)
Sleep(s, at, hundredths) == [s EXCEPT !.pc = at, !.wake = 100 * now + hundredths]

(* asyncio.Lock.acquire takes the lock at once only when it is free and     *)
(* nobody is queued for it; otherwise the caller queues (FIFO).             *)
LockFree(g) == g.lock = NoFlow /\ g.waiters = <<>>

(* The names of a flow's suspension points in wait_for_available_slot and   *)
(* release_slot, by who called them: smart_retry ("run") or the flow        *)
(* itself ("bare").                                                         *)
SlotSleepPc(k) == IF k = "run" THEN "slot_sleep" ELSE "acq_sleep"
AcqLockPc(k) == IF k = "run" THEN "lock_wait" ELSE "acq_lock_wait"
RelLockPc(k) == IF k = "run" THEN "release_wait" ELSE "rel_lock_wait"

(* wait_for_available_slot has returned: smart_retry starts the operation   *)
(* (await func), a bare caller goes on.                                     *)
AfterAcquired(s, k) ==
    IF k = "run"
    THEN [s EXCEPT !.pc = "executing", !.execs = @ + 1]
    ELSE [s EXCEPT !.pc = "idle", !.ret = [NoRet EXCEPT !.kind = "acquired"]]

(* Variant of SlotBusy that admits one request too many. *)
SlotBusyLate(c) == c > max_concurrent

(* The loop condition of wait_for_available_slot. *)
SlotBusy(c) == c >= max_concurrent

(* The body of wait_for_available_slot, run by flow f holding the lock:     *)
(* sleep one second with the lock held while no slot is free, else take a   *)
(* slot and leave the lock.                                                 *)
SlotLoop(f, s, k) ==
    IF SlotBusy(s.gate.c)
    THEN Sleep([s EXCEPT !.gate.lock = f], SlotSleepPc(k), 100 * SLOT_POLL_SECONDS)
    ELSE AfterAcquired([s EXCEPT !.gate.c = @ + 1, !.gate.lock = NoFlow], k)

(* wait_for_available_slot *)
WaitForAvailableSlot(f, s, k) ==
    IF LockFree(s.gate)
    THEN SlotLoop(f, s, k)
    ELSE [s EXCEPT !.gate.waiters = Append(@, f), !.pc = AcqLockPc(k)]

(* Variant of HandleFailure that computes the backoff from the statistics   *)
(* as they were when the operation failed.                                  *)
HandleFailureStaleStats(s, code) ==
    LET st == [s.stats EXCEPT !.retry_count = @ + 1, !.success_streak = 0]
        ss == IF code # NoCode THEN RecordError(s.ss, code, now) ELSE s.ss
        s2 == [s EXCEPT !.stats = st, !.ss = ss]
    IN IF st.retry_count > max_retries
       THEN [s2 EXCEPT !.pc = "done",
                       !.ret = [kind |-> "raise", exec |-> s.execs, code |-> code]]
       ELSE Sleep(s2, "backoff", CalculateSmartBackoff(s.stats, ss, peak_usage_times, now))

(* Variant of HandleFailure that does not count the failure. *)
HandleFailureNoCount(s, code) ==
    LET st == [s.stats EXCEPT !.success_streak = 0]
        ss == IF code # NoCode THEN RecordError(s.ss, code, now) ELSE s.ss
        s2 == [s EXCEPT !.stats = st, !.ss = ss]
    IN IF st.retry_count > max_retries
       THEN [s2 EXCEPT !.pc = "done",
                       !.ret = [kind |-> "raise", exec |-> s.execs, code |-> code]]
       ELSE Sleep(s2, "backoff", CalculateSmartBackoff(st, ss, peak_usage_times, now))

(* Variant of HandleFailure that gives up one failure too late. *)
HandleFailureLate(s, code) ==
    LET st == [s.stats EXCEPT !.retry_count = @ + 1, !.success_streak = 0]
        ss == IF code # NoCode THEN RecordError(s.ss, code, now) ELSE s.ss
        s2 == [s EXCEPT !.stats = st, !.ss = ss]
    IN IF st.retry_count > max_retries + 1
       THEN [s2 EXCEPT !.pc = "done",
                       !.ret = [kind |-> "raise", exec |-> s.execs, code |-> code]]
       ELSE Sleep(s2, "backoff", CalculateSmartBackoff(st, ss, peak_usage_times, now))

(* The except block of smart_retry for a failed operation with status code  *)
(* `code` (NoCode: the exception has no status_code).                       *)
HandleFailure(s, code) ==
    LET st == [s.stats EXCEPT !.retry_count = @ + 1, !.success_streak = 0]
        ss == IF code # NoCode THEN RecordError(s.ss, code, now) ELSE s.ss
        s2 == [s EXCEPT !.stats = st, !.ss = ss]
    IN IF st.retry_count > max_retries
       THEN [s2 EXCEPT !.pc = "done",
                       !.ret = [kind |-> "raise", exec |-> s.execs, code |-> code]]
       ELSE Sleep(s2, "backoff", CalculateSmartBackoff(st, ss, peak_usage_times, now))

(* Variant of RecordSuccess that restarts the streak at 1. *)
RecordSuccessRestartStreak(st) ==
    [st EXCEPT !.success_streak = 1, !.retry_count = 0, !.backoff_factor = 1]

(* Variant of RecordSuccess that forgets to reset retry_count. *)
RecordSuccessKeepCount(st) ==
    [st EXCEPT !.success_streak = @ + 1]

(* The statistics update of smart_retry after a successful operation. *)
RecordSuccess(st) ==
    [st EXCEPT !.success_streak = @ + 1, !.retry_count = 0, !.backoff_factor = 1]

(* release_slot has returned: smart_retry returns the result, or goes to    *)
(* its except block; a bare caller goes on.                                 *)
AfterReleased(s, k) ==
    IF k = "run"
    THEN IF s.op_result.outcome = "ok"
         THEN [s EXCEPT !.pc = "done",
                        !.ret = [kind |-> "result", exec |-> s.execs, code |-> NoCode]]
         ELSE HandleFailure(s, s.op_result.code)
    ELSE [s EXCEPT !.pc = "idle", !.ret = [NoRet EXCEPT !.kind = "released"]]

(* Variant of ReleaseBody that gives the slot back only after a successful  *)
(* operation (a release on the success path, not in a finally block).       *)
ReleaseBodyOnSuccess(s) ==
    IF s.op_result.outcome = "fail"
    THEN [s EXCEPT !.gate.lock = NoFlow]
    ELSE [s EXCEPT !.gate.c = Max(0, @ - 1), !.gate.lock = NoFlow]

(* Variant of ReleaseBody without the floor at 0. *)
ReleaseBodyNoFloor(s) ==
    [s EXCEPT !.gate.c = @ - 1, !.gate.lock = NoFlow]

(* The body of release_slot, run holding the lock. *)
ReleaseBody(s) ==
    [s EXCEPT !.gate.c = Max(0, @ - 1), !.gate.lock = NoFlow]

(* release_slot *)
ReleaseSlot(f, s, k) ==
    IF LockFree(s.gate)
    THEN AfterReleased(ReleaseBody(s), k)
    ELSE [s EXCEPT !.gate.waiters = Append(@, f), !.pc = RelLockPc(k)]

(* Variant of LoopHead that asks for a slot whatever check_server_status    *)
(* returned.                                                                *)
LoopHeadNoCooldown(f, s) ==
    IF ~(s.stats.retry_count <= max_retries)
    THEN [s EXCEPT !.pc = "done", !.ret = [NoRet EXCEPT !.kind = "returned_none"]]
    ELSE WaitForAvailableSlot(f, [s EXCEPT !.ss = CheckServerStatus(s.ss, now)], "run")

(* One pass of smart_retry's while loop, from its condition to the first    *)
(* suspension: the function ends (returning None) when retry_count exceeds  *)
(* max_retries; an overloaded server sends the flow to sleep 5 seconds;     *)
(* otherwise the flow asks for a slot.                                      *)
LoopHead(f, s) ==
    IF ~(s.stats.retry_count <= max_retries)
    THEN [s EXCEPT !.pc = "done", !.ret = [NoRet EXCEPT !.kind = "returned_none"]]
    ELSE LET ss == CheckServerStatus(s.ss, now)
             s2 == [s EXCEPT !.ss = ss]
         IN IF ss.is_overloaded
            THEN Sleep(s2, "cooldown", 100 * COOLDOWN_SECONDS)
            ELSE WaitForAvailableSlot(f, s2, "run")

(* smart_retry(request_id, func) is called: the RetryStats is created when  *)
(* the request_id has none, and the loop is entered.                        *)
RunStart(f, limit) ==
    /\ pc[f] = "idle"
    /\ retry_stats[f].success_streak < limit       \* bounds the model
    /\ LET s == Cur(f)
           st == IF s.stats.present THEN s.stats
                 ELSE [present |-> TRUE, retry_count |-> 0, backoff_factor |-> 1,
                       success_streak |-> 0]
       IN Apply(f, LoopHead(f, [s EXCEPT !.stats = st, !.execs = 0, !.ret = NoRet,
                                         !.op_result = NoResult, !.history = <<>>,
                                         !.fresh = ~s.stats.present]))

(* The operation of flow f ends, returning ("ok") or raising ("fail", with  *)
(* or without a status code); smart_retry updates the statistics on         *)
(* success and, in its finally block, releases the slot.                    *)
OpFinish(f, outcome, code) ==
    /\ pc[f] = "executing"
    /\ outcome = "ok" => code = NoCode
    /\ LET s == Cur(f)
           s2 == [s EXCEPT !.op_result = [outcome |-> outcome, code |-> code],
                           !.history = Append(@, outcome),
                           !.stats = IF outcome = "ok" THEN RecordSuccess(@) ELSE @]
       IN Apply(f, ReleaseSlot(f, s2, "run"))

(* The caller of smart_retry takes what it returned or raised. *)
Return(f) ==
    /\ pc[f] = "done"
    /\ Apply(f, [Cur(f) EXCEPT !.pc = "idle", !.ret = NoRet, !.execs = 0,
                               !.op_result = NoResult, !.history = <<>>,
                               !.fresh = FALSE])

(* A flow calls wait_for_available_slot() itself. *)
AcquireCall(f) ==
    /\ pc[f] = "idle"
    /\ Apply(f, WaitForAvailableSlot(f, [Cur(f) EXCEPT !.ret = NoRet], "bare"))

(* A flow calls release_slot() itself, whether it holds a slot or not. *)
ReleaseCall(f) ==
    /\ pc[f] = "idle"
    /\ Apply(f, ReleaseSlot(f, [Cur(f) EXCEPT !.ret = NoRet], "bare"))

(* The event loop can run flow f again: its sleep is over, or the lock it   *)
(* queued for is free and it is the first in the queue.                     *)
CanResume(f) ==
    \/ pc[f] \in SleepPcs /\ 100 * now >= wake[f]
    \/ /\ pc[f] \in LockPcs
       /\ lock = NoFlow
       /\ lock_waiters # <<>>
       /\ Head(lock_waiters) = f

(* The event loop runs flow f from its suspension point to the next one. *)
Resume(f) ==
    /\ CanResume(f)
    /\ LET s == Cur(f)
           got == [s EXCEPT !.gate.waiters = Tail(@)]     \* the lock was granted
       IN Apply(f,
            CASE pc[f] = "cooldown" -> LoopHead(f, s)                 \* continue
              [] pc[f] = "backoff" -> LoopHead(f, s)                  \* next pass
              [] pc[f] = "slot_sleep" -> SlotLoop(f, s, "run")
              [] pc[f] = "acq_sleep" -> SlotLoop(f, s, "bare")
              [] pc[f] = "lock_wait" -> SlotLoop(f, got, "run")
              [] pc[f] = "acq_lock_wait" -> SlotLoop(f, got, "bare")
              [] pc[f] = "release_wait" -> AfterReleased(ReleaseBody(got), "run")
              [] pc[f] = "rel_lock_wait" -> AfterReleased(ReleaseBody(got), "bare"))

(* The clock advances by d seconds, up to `limit`. *)
Tick(d, limit) ==
    /\ now + d <= limit
    /\ now' = now + d
    /\ UNCHANGED <<ticks, server_status, gateVars, ledgerVars, retry_stats,
                   flowVars, last_op, backoff_call, storageVars, ledger_ret, runner>>

(* The gate alone: flows call wait_for_available_slot and release_slot in   *)
(* any order.                                                               *)
NextGate ==
    \/ \E f \in Flows : AcquireCall(f)
    \/ \E f \in Flows : ReleaseCall(f)
    \/ \E f \in Flows : Resume(f)
    \/ Tick(SLOT_POLL_SECONDS, MaxTimeGate)

SpecGate == Init /\ [][NextGate]_vars

RunTicks == {1}
RunErrorCodes == {NoCode, OVERLOAD_CODE}

(* Concurrent smart_retry calls, one request_id per flow. *)
NextRun ==
    \/ \E f \in Flows : RunStart(f, MaxStreakRun)
    \/ \E f \in Flows, code \in RunErrorCodes : OpFinish(f, "fail", code)
    \/ \E f \in Flows : OpFinish(f, "ok", NoCode)
    \/ \E f \in Flows : Resume(f)
    \/ \E f \in Flows : Return(f)
    \/ \E d \in RunTicks : Tick(d, MaxTimeRun)

(* The event loop runs every flow that can run, every operation ends, and   *)
(* the clock advances.                                                      *)
FairRun ==
    /\ \A f \in Flows : WF_vars(Resume(f))
    /\ \A f \in Flows : WF_vars(OpFinish(f, "ok", NoCode))
    /\ \A f \in Flows : WF_vars(Return(f))
    /\ WF_vars(\E d \in RunTicks : Tick(d, MaxTimeRun))

SpecRunFair == Init /\ [][NextRun]_vars /\ FairRun

LiveFlows == {1, 2}
LiveTicks == {1}

(* A time stamp seen d seconds later from a clock that is held back by d:   *)
(* None stays None, and a stamp older than the clock's value stays at 0.    *)
Shift(t, d) == IF t = NoTime THEN NoTime ELSE Max(0, t - d)

(* The clock advances by d seconds once nothing is left to do at the        *)
(* present second: no task can run, no operation is executing (an operation *)
(* ends within the second it started in), every caller has taken what its   *)
(* call returned and has called again (while its success streak is below    *)
(* the bound), and no sleeping task oversleeps by a second.  The code reads *)
(* the clock only in differences now - t, so beyond MaxTimeLive the state   *)
(* is kept up to a translation of time: now stays and every time stamp      *)
(* moves back by d.  A stamp that reaches 0 is older than MaxTimeLive - d   *)
(* seconds, which is more than every threshold the code compares an age     *)
(* with (60 and 300 seconds), and stays there.                              *)
TickLive(d) ==
    /\ \A f \in LiveFlows : ~CanResume(f)
    /\ \A f \in LiveFlows : pc[f] \notin {"executing", "done"}
    /\ \A f \in LiveFlows : pc[f] = "idle" => ~(retry_stats[f].success_streak < MaxStreakSeq)
    /\ \A f \in LiveFlows : pc[f] \in SleepPcs => 100 * (now + d) < wake[f] + 100
    /\ IF now + d <= MaxTimeLive
       THEN /\ now' = now + d
            /\ UNCHANGED <<server_status, wake>>
       ELSE /\ now' = now
            /\ server_status' = [server_status EXCEPT
                                    !.last_check = Shift(@, d),
                                    !.last_error_time = Shift(@, d)]
            /\ wake' = [f \in Flows |->
                          IF pc[f] \in SleepPcs THEN Max(0, wake[f] - 100 * d)
                          ELSE wake[f]]
    /\ UNCHANGED <<ticks, gateVars, ledgerVars, retry_stats, pc, op_result,
                   history, ret, execs, fresh, call, last_op, backoff_call,
                   storageVars, ledger_ret, runner>>

(* The operations the flows pass to smart_retry, as the outcomes their      *)
(* attempt number `attempt` can have: the operation of flow 1 returns or    *)
(* raises an exception without a status code; the operation of flow 2       *)
(* raises such an exception on its first attempt, a 529 on its second, and  *)
(* returns from the third on.                                               *)
LiveOutcomes(f, attempt) ==
    IF f = 1 THEN {<<"ok", NoCode>>, <<"fail", NoCode>>}
    ELSE IF attempt = 1 THEN {<<"fail", NoCode>>}
    ELSE IF attempt = 2 THEN {<<"fail", OVERLOAD_CODE>>}
    ELSE {<<"ok", NoCode>>}

(* The operation of flow f ends. *)
OpEnd(f, outcome, code) ==
    /\ <<outcome, code>> \in LiveOutcomes(f, execs[f])
    /\ OpFinish(f, outcome, code)

(* At most max_concurrent smart_retry calls at a time, one request_id per   *)
(* flow, called again and again, for as long as the clock runs.             *)
NextLive ==
    \/ \E f \in LiveFlows : RunStart(f, MaxStreakSeq)
    \/ \E f \in LiveFlows, code \in RunErrorCodes : OpEnd(f, "fail", code)
    \/ \E f \in LiveFlows : OpEnd(f, "ok", NoCode)
    \/ \E f \in LiveFlows : Resume(f)
    \/ \E f \in LiveFlows : Return(f)
    \/ \E d \in LiveTicks : TickLive(d)

(* The event loop runs every task that can run, every operation ends, the   *)
(* callers go on calling, and the clock advances when nothing else is left  *)
(* to do.                                                                   *)
FairLive ==
    /\ \A f \in LiveFlows : WF_vars(Resume(f))
    /\ \A f \in LiveFlows :
          WF_vars(\E o \in {"ok", "fail"}, code \in RunErrorCodes : OpEnd(f, o, code))
    /\ \A f \in LiveFlows : WF_vars(Return(f))
    /\ \A f \in LiveFlows : WF_vars(RunStart(f, MaxStreakSeq))
    /\ WF_vars(\E d \in LiveTicks : TickLive(d))

SpecLive == Init /\ [][NextLive]_vars /\ FairLive

SeqFlows == {1}
SeqTicks == {1, 5, 60}

(* One flow calls smart_retry again and again on its request_id, while a    *)
(* collaborator may report errors of its own.                               *)
NextSeq ==
    \/ \E f \in SeqFlows : RunStart(f, MaxStreakSeq)
    \/ \E f \in SeqFlows, code \in ErrorCodes : OpFinish(f, "fail", code)
    \/ \E f \in SeqFlows : OpFinish(f, "ok", NoCode)
    \/ \E f \in SeqFlows : Resume(f)
    \/ \E f \in SeqFlows : Return(f)
    \/ \E d \in SeqTicks : Tick(d, MaxTimeSeq)

SpecSeq == Init /\ [][NextSeq]_vars

----------------------------------------------------------------------------
(* UsageLedger *)

RECURSIVE SumTokens(_)
SumTokens(h) == IF h = <<>> THEN 0 ELSE Head(h).tokens + SumTokens(Tail(h))

(* Variant of Expired that keeps a record whose age is exactly the window. *)
ExpiredStrict(u, t) == t - u.timestamp > window_size

(* The test of _cleanup_old_usage on the oldest record. *)
Expired(u, t) == t - u.timestamp >= window_size

(* Variant of CleanupOldUsage with `if` for `while`: it pops one record. *)
CleanupOnlyOldest(h, t) ==
    IF h # <<>> /\ t - Head(h).timestamp >= window_size THEN Tail(h) ELSE h

(* _cleanup_old_usage: pop from the left while the oldest record is         *)
(* expired.                                                                 *)
RECURSIVE CleanupOldUsage(_, _)
CleanupOldUsage(h, t) ==
    IF h # <<>> /\ Expired(Head(h), t) THEN CleanupOldUsage(Tail(h), t) ELSE h

(* get_current_usage: the value returned (the deque it leaves is            *)
(* CleanupOldUsage(h, t)).                                                  *)
GetCurrentUsage(h, t) == SumTokens(CleanupOldUsage(h, t))

(* Variant of AbovePeakShare that counts a usage of exactly 80%. *)
AbovePeakShareInclusive(usage) == 10 * usage >= 8 * tokens_per_minute

(* current_usage > tokens_per_minute * 0.8 *)
AbovePeakShare(usage) == 10 * usage > 8 * tokens_per_minute

(* _update_usage_patterns: the peak_usage_times it leaves. *)
UpdateUsagePatterns(peaks, h, t) ==
    LET added == IF AbovePeakShare(GetCurrentUsage(h, t))
                 THEN Append(peaks, t) ELSE peaks
    IN SelectSeq(added, LAMBDA p : t - p <= 24 * 3600)

TokenAmounts == {10, 50, 60}
WaitAmounts == {10, 60, 150}
LedgerFlows == {1}
LedgerTicks == {1, 59}

(* record_usage(tokens): append the record, prune, update the peaks. *)
RecordUsage(tokens) ==
    /\ Len(recorded) < MaxRecords
    /\ LET u == [timestamp |-> now, tokens |-> tokens]
           h == CleanupOldUsage(Append(usage_history, u), now)
       IN /\ usage_history' = h
          /\ peak_usage_times' = UpdateUsagePatterns(peak_usage_times, h, now)
          /\ recorded' = Append(recorded, u)

(* A caller invokes record_usage(tokens). *)
RecordUsageCall(tokens) ==
    /\ RecordUsage(tokens)
    /\ UNCHANGED <<now, ticks, server_status, gateVars, retry_stats, flowVars,
                   last_op, backoff_call, storageVars>>
    /\ UNCHANGED runner
    /\ ledger_ret' = NoLedgerRet

(* A caller invokes get_current_usage(): it returns                         *)
(* GetCurrentUsage(usage_history, now) and leaves the deque pruned.         *)
GetCurrentUsageCall ==
    /\ usage_history' = CleanupOldUsage(usage_history, now)
    /\ UNCHANGED <<now, ticks, server_status, gateVars, retry_stats, flowVars,
                   peak_usage_times, recorded, last_op, backoff_call,
                   storageVars>>
    /\ UNCHANGED runner
    /\ ledger_ret' = NoLedgerRet

(* Variant of WaitTime that waits a whole window on an empty ledger. *)
WaitTimeFullWindow(h, t) ==
    IF h # <<>> THEN Max(0, window_size - (t - Head(h).timestamp)) ELSE window_size

(* The time wait_if_needed sleeps when the request does not fit the budget: *)
(* until the oldest record of the pruned deque h leaves the window, and not *)
(* at all when h is empty.                                                  *)
WaitTime(h, t) ==
    IF h # <<>> THEN Max(0, window_size - (t - Head(h).timestamp)) ELSE 0

(* Flow f calls wait_if_needed(tokens): it returns at once, or sleeps until *)
(* the oldest record leaves the window.                                     *)
WaitIfNeededCall(f, tokens) ==
    /\ pc[f] = "idle"
    /\ Len(peak_usage_times) < MaxPeaks
    /\ LET h == CleanupOldUsage(usage_history, now)
           current_usage == GetCurrentUsage(usage_history, now)
           wait_time == WaitTime(h, now)
           sleeps == current_usage + tokens > tokens_per_minute /\ wait_time > 0
       IN /\ usage_history' = h
          /\ peak_usage_times' = UpdateUsagePatterns(peak_usage_times, usage_history, now)
          /\ pc' = [pc EXCEPT ![f] = IF sleeps THEN "rate_sleep" ELSE "idle"]
          /\ wake' = [wake EXCEPT ![f] = IF sleeps THEN 100 * (now + wait_time) ELSE 0]
          /\ call' = [call EXCEPT ![f] = [tokens |-> tokens, at |-> now, slept |-> sleeps,
                                          done_at |-> IF sleeps THEN NoTime ELSE now]]
    /\ UNCHANGED <<now, ticks, server_status, gateVars, retry_stats, op_result,
                   history, ret, execs, fresh, recorded, last_op, backoff_call,
                   storageVars>>
    /\ UNCHANGED runner
    /\ ledger_ret' = NoLedgerRet

(* The sleep of wait_if_needed is over: the flow prunes the ledger again    *)
(* and returns.                                                             *)
WaitIfNeededWake(f) ==
    /\ pc[f] = "rate_sleep"
    /\ 100 * now >= wake[f]
    /\ usage_history' = CleanupOldUsage(usage_history, now)
    /\ pc' = [pc EXCEPT ![f] = "idle"]
    /\ wake' = [wake EXCEPT ![f] = 0]
    /\ call' = [call EXCEPT ![f].done_at = now]
    /\ UNCHANGED <<now, ticks, server_status, gateVars, retry_stats, op_result,
                   history, ret, execs, fresh, peak_usage_times, recorded,
                   last_op, backoff_call, storageVars>>
    /\ UNCHANGED runner
    /\ ledger_ret' = NoLedgerRet

(* The clock advances between two steps of the ledger's callers. *)
TickLedger(d) ==
    /\ ticks < MaxTicksLedger
    /\ now' = now + d
    /\ ticks' = ticks + 1
    /\ UNCHANGED <<server_status, gateVars, ledgerVars, retry_stats, flowVars, last_op,
                   backoff_call, storageVars>>
    /\ UNCHANGED runner
    /\ ledger_ret' = NoLedgerRet

NextLedger ==
    \/ \E tokens \in TokenAmounts : RecordUsageCall(tokens)
    \/ GetCurrentUsageCall
    \/ \E f \in LedgerFlows, tokens \in WaitAmounts : WaitIfNeededCall(f, tokens)
    \/ \E f \in LedgerFlows : WaitIfNeededWake(f)
    \/ \E d \in LedgerTicks : TickLedger(d)

SpecLedger == Init /\ [][NextLedger]_vars

ProtocolFlows == {1, 2}
ProtocolAmounts == {50, 60}

(* A flow that follows the protocol asks for permission: it calls           *)
(* wait_if_needed(tokens) when it has no request pending.                   *)
ProtocolWait(f, tokens) ==
    /\ call[f] = NoCall
    /\ WaitIfNeededCall(f, tokens)

(* A flow whose wait_if_needed(tokens) has returned records the same tokens *)
(* with record_usage(tokens), which ends its request.                       *)
ProtocolRecord(f) ==
    /\ pc[f] = "idle"
    /\ call[f].done_at # NoTime
    /\ RecordUsage(call[f].tokens)
    /\ call' = [call EXCEPT ![f] = NoCall]
    /\ UNCHANGED <<now, ticks, server_status, gateVars, retry_stats, pc, wake,
                   op_result, history, ret, execs, fresh, last_op, backoff_call,
                   storageVars>>
    /\ UNCHANGED runner
    /\ ledger_ret' = NoLedgerRet

(* Every flow uses the ledger by the protocol wait_if_needed(t), then       *)
(* record_usage(t), with t <= tokens_per_minute.                            *)
NextProtocol ==
    \/ \E f \in ProtocolFlows, tokens \in ProtocolAmounts : ProtocolWait(f, tokens)
    \/ \E f \in ProtocolFlows : WaitIfNeededWake(f)
    \/ \E f \in ProtocolFlows : ProtocolRecord(f)
    \/ \E d \in LedgerTicks : TickLedger(d)

SpecProtocol == Init /\ [][NextProtocol]_vars

RetryFlows == {1}
RetryAmounts == {90}
RetryTicks == {1}

(* One flow calls smart_retry again and again on its request_id, while the  *)
(* callers of the ledger record usage.                                      *)
NextRetry ==
    \/ \E f \in RetryFlows : RunStart(f, MaxStreakSeq)
    \/ \E f \in RetryFlows, code \in RunErrorCodes : OpFinish(f, "fail", code)
    \/ \E f \in RetryFlows : OpFinish(f, "ok", NoCode)
    \/ \E f \in RetryFlows : Resume(f)
    \/ \E f \in RetryFlows : Return(f)
    \/ \E tokens \in RetryAmounts : RecordUsageCall(tokens)
    \/ \E d \in RetryTicks : Tick(d, MaxTimeRun)

SpecRetry == Init /\ [][NextRetry]_vars

PeakAmounts == {10, 60, 90}
PeakTicks == {1, 24 * 3600}

(* The ledger over more than a day: callers record usage and wait, and the  *)
(* clock advances by a second or by 24 hours.                               *)
NextPeaks ==
    \/ \E tokens \in PeakAmounts : RecordUsageCall(tokens)
    \/ \E f \in LedgerFlows, tokens \in PeakAmounts : WaitIfNeededCall(f, tokens)
    \/ \E f \in LedgerFlows : WaitIfNeededWake(f)
    \/ \E d \in PeakTicks : TickLedger(d)

SpecPeaks == Init /\ [][NextPeaks]_vars

(* can_make_request: the value returned. *)
CanMakeRequest(h, tokens, t) == GetCurrentUsage(h, t) + tokens <= tokens_per_minute

(* Variant of GetAvailableTokens without the floor at 0. *)
GetAvailableTokensNoFloor(h, t) == tokens_per_minute - GetCurrentUsage(h, t)

(* get_available_tokens: the value returned. *)
GetAvailableTokens(h, t) == Max(0, tokens_per_minute - GetCurrentUsage(h, t))

(* A caller invokes can_make_request(tokens): get_current_usage prunes the  *)
(* deque on the way.                                                        *)
CanMakeRequestCall(tokens) ==
    /\ usage_history' = CleanupOldUsage(usage_history, now)
    /\ UNCHANGED runner
    /\ ledger_ret' = [op |-> "can_make_request", tokens |-> tokens,
                      result |-> CanMakeRequest(usage_history, tokens, now)]
    /\ UNCHANGED <<now, ticks, server_status, gateVars, retry_stats, flowVars,
                   peak_usage_times, recorded, last_op, backoff_call, storageVars>>

(* A caller invokes get_available_tokens(). *)
GetAvailableTokensCall ==
    /\ usage_history' = CleanupOldUsage(usage_history, now)
    /\ UNCHANGED runner
    /\ ledger_ret' = [op |-> "get_available_tokens", tokens |-> 0,
                      result |-> GetAvailableTokens(usage_history, now)]
    /\ UNCHANGED <<now, ticks, server_status, gateVars, retry_stats, flowVars,
                   peak_usage_times, recorded, last_op, backoff_call, storageVars>>

(* Callers record usage and ask the two read-only questions, in any order.  *)
NextRead ==
    \/ \E tokens \in TokenAmounts : RecordUsageCall(tokens)
    \/ \E tokens \in TokenAmounts : CanMakeRequestCall(tokens)
    \/ GetAvailableTokensCall
    \/ \E d \in LedgerTicks : TickLedger(d)

SpecRead == Init /\ [][NextRead]_vars

----------------------------------------------------------------------------
(* FeedbackStorage *)

(* FeedbackType(...).value, FeedbackSeverity(...).value *)
EnumValue(member) ==
    CASE member = "EXECUTION" -> "execution"
      [] member = "PERFORMANCE" -> "performance"
      [] member = "MEDIUM" -> "medium"
      [] member = "HIGH" -> "high"

(* FeedbackType(value), FeedbackSeverity(value) *)
EnumMember(value) ==
    CASE value = "execution" -> "EXECUTION"
      [] value = "performance" -> "PERFORMANCE"
      [] value = "medium" -> "MEDIUM"
      [] value = "high" -> "HIGH"

(* Feedback.to_dict, as json.dump writes it to the file. *)
FeedbackToDict(fb) ==
    [kind |-> "json", id |-> fb.id, type |-> EnumValue(fb.type),
     severity |-> EnumValue(fb.severity)]

(* Variant of DictToFeedback that ignores the severity of the file. *)
DictToFeedbackDefaultSeverity(data) ==
    [id |-> data.id, type |-> EnumMember(data.type), severity |-> "MEDIUM"]

(* _dict_to_feedback *)
DictToFeedback(data) ==
    [id |-> data.id, type |-> EnumMember(data.type),
     severity |-> EnumMember(data.severity)]

(* The outcomes of writing the file in save_feedback: written, open()       *)
(* raises (the file is left as it was), json.dump raises (the file is left  *)
(* truncated).                                                              *)
SaveOutcomes == {"ok", "open_fails", "dump_fails"}

(* save_feedback(fb): the cache is set first, then the file is written;     *)
(* any exception makes it return False.                                     *)
SaveFeedback(fb, io, name) ==
    /\ cache' = [cache EXCEPT ![fb.id] = fb]
    /\ storage_files' =
          [storage_files EXCEPT ![fb.id] =
              CASE io = "ok" -> FeedbackToDict(fb)
                [] io = "open_fails" -> @
                [] io = "dump_fails" -> CorruptFile]
    /\ storage_op' = [op |-> name, id |-> fb.id, io |-> io, result |-> (io = "ok"),
                      was_cached |-> cache[fb.id] # NoFeedback,
                      had_file |-> storage_files[fb.id] # NoFile]
    /\ UNCHANGED <<now, ticks, server_status, gateVars, ledgerVars, retry_stats,
                   flowVars, last_op, backoff_call, ledger_ret, runner>>

(* A caller invokes save_feedback(fb). *)
SaveFeedbackCall(fb, io) == SaveFeedback(fb, io, "save")

(* A caller invokes update_feedback(fb): it is save_feedback(fb). *)
UpdateFeedbackCall(fb, io) == SaveFeedback(fb, io, "update")

(* The outcomes of delete_feedback's unlink(). *)
DeleteOutcomes == {"ok", "unlink_fails"}

(* What delete_feedback returns: True unless an exception was raised. *)
DeleteResult(io, was_cached, had_file) == io = "ok"

(* A caller invokes delete_feedback(id): the cache entry is removed when    *)
(* there is one, then the file when there is one.                           *)
DeleteFeedbackCall(id, io) ==
    /\ io = "unlink_fails" => storage_files[id] # NoFile
    /\ cache' = [cache EXCEPT ![id] = NoFeedback]
    /\ storage_files' = [storage_files EXCEPT ![id] = IF io = "ok" THEN NoFile ELSE @]
    /\ storage_op' = [op |-> "delete", id |-> id, io |-> io,
                      result |-> DeleteResult(io, cache[id] # NoFeedback,
                                              storage_files[id] # NoFile),
                      was_cached |-> cache[id] # NoFeedback,
                      had_file |-> storage_files[id] # NoFile]
    /\ UNCHANGED <<now, ticks, server_status, gateVars, ledgerVars, retry_stats,
                   flowVars, last_op, backoff_call, ledger_ret, runner>>

(* A caller invokes clear_storage(): the cache is emptied, then the files   *)
(* are removed one by one in the order glob yields them; an unlink() that   *)
(* raises leaves the files not yet reached (`left`, not empty then).        *)
ClearStorageCall(left) ==
    /\ \A id \in left : storage_files[id] # NoFile
    /\ cache' = [id \in FeedbackIds |-> NoFeedback]
    /\ storage_files' = [id \in FeedbackIds |->
                            IF id \in left THEN storage_files[id] ELSE NoFile]
    /\ storage_op' = [op |-> "clear", id |-> "",
                      io |-> IF left = {} THEN "ok" ELSE "unlink_fails",
                      result |-> (left = {}),
                      was_cached |-> \E id \in FeedbackIds : cache[id] # NoFeedback,
                      had_file |-> \E id \in FeedbackIds : storage_files[id] # NoFile]
    /\ UNCHANGED <<now, ticks, server_status, gateVars, ledgerVars, retry_stats,
                   flowVars, last_op, backoff_call, ledger_ret, runner>>

(* _load_cache: every file that parses is put in the cache under the id it  *)
(* holds; a file that does not parse is skipped.                            *)
LoadCache(files) ==
    [id \in FeedbackIds |->
        IF \E name \in FeedbackIds : files[name].kind = "json" /\ files[name].id = id
        THEN DictToFeedback(files[CHOOSE name \in FeedbackIds :
                                     files[name].kind = "json" /\ files[name].id = id])
        ELSE NoFeedback]

(* A new FeedbackStorage is constructed on the same directory. *)
ReopenStorage ==
    /\ cache' = LoadCache(storage_files)
    /\ storage_op' = [NoStorageOp EXCEPT !.op = "open"]
    /\ UNCHANGED <<storage_files, now, ticks, server_status, gateVars, ledgerVars,
                   retry_stats, flowVars, last_op, backoff_call, ledger_ret, runner>>

NextStorage ==
    \/ \E fb \in Feedbacks, io \in SaveOutcomes : SaveFeedbackCall(fb, io)
    \/ \E fb \in Feedbacks, io \in SaveOutcomes : UpdateFeedbackCall(fb, io)
    \/ \E id \in FeedbackIds, io \in DeleteOutcomes : DeleteFeedbackCall(id, io)
    \/ \E left \in SUBSET FeedbackIds : ClearStorageCall(left)
    \/ ReopenStorage

SpecStorage == Init /\ [][NextStorage]_vars

(* The same calls when none of them fails: every file operation succeeds.   *)
NextStorageOk ==
    \/ \E fb \in Feedbacks : SaveFeedbackCall(fb, "ok")
    \/ \E fb \in Feedbacks : UpdateFeedbackCall(fb, "ok")
    \/ \E id \in FeedbackIds : DeleteFeedbackCall(id, "ok")
    \/ ClearStorageCall({})
    \/ ReopenStorage

SpecStorageOk == Init /\ [][NextStorageOk]_vars


----------------------------------------------------------------------------
(* EnhancedMCPRunner.execute_subtasks and ErrorHandler.handle_error *)

(* RetryPolicy.should_retry *)
ShouldRetry(attempt_count, task) == attempt_count[task] < MAX_ATTEMPTS

(* ErrorHandler.handle_error(task, error): what it returns, and the         *)
(* attempt_count it leaves.                                                 *)
HandleError(attempt_count, task) ==
    IF ShouldRetry(attempt_count, task)
    THEN [retry |-> TRUE, attempt_count |-> [attempt_count EXCEPT ![task] = @ + 1]]
    ELSE [retry |-> FALSE, attempt_count |-> attempt_count]

(* The subtask the for loop goes to after the body ran at position i with   *)
(* the local variable i left at `local`: enumerate() keeps its own counter, *)
(* so what the body assigned to i is lost.                                  *)
NextSubtask(i, local) == i + 1

(* How one pass of the loop body can go: everything returns ("ok"), the     *)
(* execution of the subtask raises before a result is appended ("raise"),   *)
(* or the progress update raises after it ("progress_raise").               *)
SubtaskOutcomes == {"ok", "raise", "progress_raise"}

(* execute_subtasks(subtasks) is called with the first n subtasks of the    *)
(* runner's list.                                                           *)
ExecuteSubtasksCall(n) ==
    /\ runner.status # "running"
    /\ runner' = [status |-> "running", n |-> n, i |-> 1, results |-> <<>>,
                  started |-> <<>>, attempt_count |-> runner.attempt_count]
    /\ UNCHANGED <<now, ticks, server_status, gateVars, ledgerVars, retry_stats,
                   flowVars, last_op, backoff_call, storageVars, ledger_ret>>

(* One pass of the for loop of execute_subtasks, on subtask runner.i, and   *)
(* the return of the results when it was the last one.                      *)
SubtaskIteration(outcome) ==
    /\ runner.status = "running"
    /\ LET i == runner.i
           results == IF outcome = "raise" THEN runner.results
                      ELSE Append(runner.results, i)
           handled == HandleError(runner.attempt_count, i)
           next == IF outcome = "ok" THEN NextSubtask(i, i) ELSE NextSubtask(i, i - 1)
           r == [runner EXCEPT !.started = Append(@, i), !.results = results]
       IN runner' =
            IF outcome # "ok" /\ ~handled.retry
            THEN [r EXCEPT !.status = "raised"]
            ELSE [r EXCEPT !.i = next,
                           !.status = IF next > runner.n THEN "returned" ELSE "running",
                           !.attempt_count = IF outcome = "ok" THEN @
                                             ELSE handled.attempt_count]
    /\ UNCHANGED <<now, ticks, server_status, gateVars, ledgerVars, retry_stats,
                   flowVars, last_op, backoff_call, storageVars, ledger_ret>>

NextRunner ==
    \/ \E n \in 1..MaxSubtasks : ExecuteSubtasksCall(n)
    \/ \E outcome \in SubtaskOutcomes : SubtaskIteration(outcome)

SpecRunner == Init /\ [][NextRunner]_vars

----------------------------------------------------------------------------
(* Claims.                                                                  *)

(* C1: for any interleaving of wait_for_available_slot and release_slot     *)
(* calls, release_slot without a prior acquire included,                    *)
(* 0 <= concurrent_requests <= max_concurrent in every reachable state.     *)
C1_InFlightWithinBounds ==
    concurrent_requests >= 0 /\ concurrent_requests <= max_concurrent

(* C1's case: the gate is full, a flow is suspended in                      *)
(* wait_for_available_slot, and another flow's release_slot has returned.   *)
C1_Witness ==
    \E f, g \in Flows :
        /\ f # g
        /\ pc[f] = "acq_sleep"
        /\ concurrent_requests = max_concurrent
        /\ ret[g].kind = "released"

(* C2: with max_concurrent = 2 and three concurrent smart_retry calls, a    *)
(* call suspended in wait_for_available_slot while max_concurrent           *)
(* operations are in flight does not keep release_slot from completing,     *)
(* and eventually gets a slot and executes its operation.                   *)
C2_WaiterEventuallyExecutes ==
    /\ [](\A f, g \in Flows :
            ~(pc[f] = "slot_sleep" /\ lock = f /\ pc[g] = "release_wait"))
    /\ \A f \in Flows :
          (pc[f] = "slot_sleep" /\ concurrent_requests = max_concurrent)
              ~> (pc[f] = "executing")

(* C3: every execution of the operation inside smart_retry, whether it      *)
(* returns or raises, is followed by the completion of release_slot for it: *)
(* no flow stays forever between the start of its operation and the end of  *)
(* release_slot.                                                            *)
C3_SlotEventuallyReleased ==
    \A f \in Flows :
        (pc[f] = "executing") ~> (pc[f] \notin {"executing", "release_wait"})

(* C4: every completed smart_retry call has executed the operation, and     *)
(* either returns the result of a successful execution or raises the        *)
(* exception of a failed one, whatever earlier calls on the request_id did. *)
C4_CompletedRunExecutedOperation ==
    \A f \in Flows :
        pc[f] = "done" =>
            /\ execs[f] >= 1
            /\ \/ ret[f].kind = "result" /\ op_result[f].outcome = "ok"
               \/ /\ ret[f].kind = "raise"
                  /\ op_result[f].outcome = "fail"
                  /\ ret[f].code = op_result[f].code

(* The first k executions of flow f's current smart_retry call failed. *)
FirstFailed(f, k) ==
    /\ Len(history[f]) >= k
    /\ \A i \in 1..k : history[f][i] = "fail"

(* C5: for a fresh request_id and 0 <= k <= max_retries, when the operation *)
(* fails on its first k executions and succeeds on execution k + 1,         *)
(* smart_retry returns that result and leaves retry_count = 0 and           *)
(* success_streak = 1.                                                      *)
C5_FailsThenSucceeds ==
    \A f \in Flows, k \in 0..max_retries :
        (/\ fresh[f]
         /\ Len(history[f]) = k + 1
         /\ FirstFailed(f, k)
         /\ history[f][k + 1] = "ok")
        => /\ pc[f] = "done"
           /\ ret[f] = [kind |-> "result", exec |-> k + 1, code |-> NoCode]
           /\ retry_stats[f].retry_count = 0
           /\ retry_stats[f].success_streak = 1

(* C5's case with k = max_retries (Scenario B). *)
C5_Witness ==
    \E f \in Flows :
        /\ fresh[f]
        /\ Len(history[f]) = max_retries + 1
        /\ FirstFailed(f, max_retries)
        /\ history[f][max_retries + 1] = "ok"
        /\ pc[f] = "done"

(* C6: for a fresh request_id, when the operation fails on each of its      *)
(* first max_retries + 1 executions, smart_retry raises the exception of    *)
(* execution max_retries + 1 unchanged and leaves                           *)
(* retry_count = max_retries + 1.                                           *)
C6_ExhaustedRaisesLast ==
    \A f \in Flows :
        (/\ fresh[f]
         /\ Len(history[f]) = max_retries + 1
         /\ FirstFailed(f, max_retries + 1))
        => /\ pc[f] = "done"
           /\ ret[f] = [kind |-> "raise", exec |-> max_retries + 1,
                        code |-> op_result[f].code]
           /\ retry_stats[f].retry_count = max_retries + 1

(* C6's case: the call has raised after max_retries + 1 failures, the last  *)
(* one carrying a status code.                                              *)
C6_Witness ==
    \E f \in Flows :
        /\ fresh[f]
        /\ FirstFailed(f, max_retries + 1)
        /\ ret[f].kind = "raise"
        /\ ret[f].code = 500

(* The sum of the tokens of the records of `recs` younger than the window   *)
(* at time t.                                                               *)
RECURSIVE WindowSum(_, _)
WindowSum(recs, t) ==
    IF recs = <<>> THEN 0
    ELSE (IF t - Head(recs).timestamp < window_size THEN Head(recs).tokens ELSE 0)
         + WindowSum(Tail(recs), t)

(* C7: after any sequence of record_usage calls, get_current_usage() called *)
(* at time now returns the sum of the tokens of the records whose age is    *)
(* strictly less than window_size, and counts no older record.              *)
C7_UsageIsWindowSum ==
    GetCurrentUsage(usage_history, now) = WindowSum(recorded, now)

(* C7's case: the deque still holds expired records next to a live one. *)
C7_Witness ==
    /\ Len(usage_history) >= 3
    /\ now - usage_history[1].timestamp >= window_size
    /\ now - usage_history[2].timestamp >= window_size
    /\ now - usage_history[3].timestamp < window_size

(* Scenario A: record_usage(60) and record_usage(50) at t = 0 are the only  *)
(* records, flow f called wait_if_needed(10) at t = 0, was suspended, and   *)
(* has just returned.                                                       *)
ScenarioA(f) ==
    /\ recorded = <<[timestamp |-> 0, tokens |-> 60], [timestamp |-> 0, tokens |-> 50]>>
    /\ call[f] = [tokens |-> 10, at |-> 0, slept |-> TRUE, done_at |-> now]

(* C8 as claimed: in Scenario A wait_if_needed(10) is suspended until       *)
(* t = 60 and get_current_usage() is 50 when it returns.                    *)
C8_ScenarioA_Usage50 ==
    \A f \in LedgerFlows :
        ScenarioA(f) => now >= 60 /\ GetCurrentUsage(usage_history, now) = 50

(* C8 amended: in Scenario A wait_if_needed(10) is suspended until t = 60   *)
(* and get_current_usage() is 0 when it returns: the two records carry the  *)
(* same timestamp and leave the window together.                            *)
C8_ScenarioA_Usage0 ==
    \A f \in LedgerFlows :
        ScenarioA(f) => now >= 60 /\ GetCurrentUsage(usage_history, now) = 0

(* C8's case: wait_if_needed(10) of Scenario A returns at t = 60. *)
C8_Witness ==
    \E f \in LedgerFlows : ScenarioA(f) /\ now = 60

(* C9: check_server_status returns false exactly when, after the decay      *)
(* step, error_count >= 3 or a 529 error was recorded within the last 60    *)
(* seconds (0 seconds ago included).                                        *)
C9_CheckStatusIffOverloadCondition ==
    last_op.op = "check" =>
        (last_op.result = FALSE
            <=> \/ server_status.error_count >= 3
                \/ /\ server_status.last_error_time # NoTime
                   /\ last_op.at - server_status.last_error_time < 60)

C11_DecayPerSpacedCheck ==
    /\ [](last_op.op = "record_error" /\ server_status.error_count >= 3
              => server_status.is_overloaded)
    /\ [][(/\ CheckStatusCall
           /\ server_status.last_error_time # NoTime
           /\ now - server_status.last_error_time > DECAY_AFTER_SECONDS
           /\ now - server_status.last_check >= server_check_interval)
          => server_status'.error_count = Max(0, server_status.error_count - 1)]_vars

(* C12: in smart_retry, a loop iteration whose check_server_status returned *)
(* false (the flow goes to the 5-second cooldown) does not execute the      *)
(* operation, takes no slot and does not touch the lock, and leaves         *)
(* retry_count and success_streak of the request as they were; the          *)
(* operation starts only in an iteration whose check_server_status returned *)
(* true, at once or after waiting for the gate.                             *)
C12_OverloadedIterationIdle ==
    [][\A f \in Flows :
          /\ (pc'[f] = "cooldown" /\ (pc[f] # "cooldown" \/ wake'[f] # wake[f]))
                => /\ server_status'.is_overloaded
                   /\ execs'[f] = (IF pc[f] = "idle" THEN 0 ELSE execs[f])
                   /\ UNCHANGED gateVars
                   /\ retry_stats'[f].retry_count = retry_stats[f].retry_count
                   /\ retry_stats'[f].success_streak = retry_stats[f].success_streak
          /\ (pc'[f] = "executing" /\ pc[f] # "executing")
                => \/ pc[f] \in {"idle", "cooldown", "backoff"}
                         /\ ~server_status'.is_overloaded
                   \/ pc[f] \in {"lock_wait", "slot_sleep"}
          /\ (pc'[f] \in {"lock_wait", "slot_sleep"} /\ pc[f] \notin {"lock_wait", "slot_sleep"})
                => /\ pc[f] \in {"idle", "cooldown", "backoff"}
                   /\ ~server_status'.is_overloaded]_vars

(* C12's case: a flow that has executed and failed once is in the cooldown  *)
(* of a later iteration while another flow's operation holds a slot.        *)
C12_Witness ==
    \E f, g \in Flows :
        /\ pc[f] = "cooldown"
        /\ execs[f] = 1
        /\ retry_stats[f].retry_count = 1
        /\ pc[g] = "executing"
        /\ concurrent_requests >= 1

(* C13: in any interleaving of concurrent smart_retry calls, the number of  *)
(* operations being executed at the same instant never exceeds              *)
(* max_concurrent.                                                          *)
C13_ExecutingWithinMaxConcurrent ==
    Cardinality({f \in Flows : pc[f] = "executing"}) <= max_concurrent

(* C13's case (Scenario D): max_concurrent operations are being executed    *)
(* and a third smart_retry call is held back in wait_for_available_slot.    *)
C13_Witness ==
    /\ Cardinality({f \in Flows : pc[f] = "executing"}) = max_concurrent
    /\ \E f \in Flows : pc[f] = "slot_sleep"

(* C14: one smart_retry call executes the operation at most max_retries + 1 *)
(* times, whatever the executions' outcomes and whatever RetryStats earlier *)
(* calls left for the request_id.                                           *)
C14_AtMostMaxRetriesPlusOneExecutions ==
    \A f \in Flows : execs[f] <= max_retries + 1

(* C14's case: a call that found the RetryStats of an earlier call has      *)
(* executed the operation max_retries + 1 times and raised.                 *)
C14_Witness ==
    \E f \in Flows :
        /\ ~fresh[f]
        /\ execs[f] = max_retries + 1
        /\ pc[f] = "done"
        /\ ret[f].kind = "raise"

(* C15 as claimed: for every positive initial_backoff, max_backoff and      *)
(* backoff_multiplier, every RetryStats, health and peak state,             *)
(* _calculate_smart_backoff returns d with                                  *)
(* initial_backoff <= d <= max_backoff * 2 * 1.5.                           *)
C15_WithinInitialAndTripleMax ==
    backoff_call.d # NoTime =>
        /\ BackoffUnit * backoff_call.cfg.initial_backoff <= backoff_call.d
        /\ 10 * backoff_call.d <= BackoffUnit * backoff_call.cfg.max_backoff * 2 * 15

(* C15 amended: _calculate_smart_backoff returns d with                     *)
(* initial_backoff <= d <= max(initial_backoff, max_backoff * 2 * 1.5): the *)
(* floor initial_backoff is applied last and wins over the cap.             *)
C15_WithinInitialAndFlooredTripleMax ==
    backoff_call.d # NoTime =>
        /\ BackoffUnit * backoff_call.cfg.initial_backoff <= backoff_call.d
        /\ 10 * backoff_call.d
              <= Max(10 * BackoffUnit * backoff_call.cfg.initial_backoff,
                     BackoffUnit * backoff_call.cfg.max_backoff * 2 * 15)

(* C15's case: a call returned max_backoff * 2 * 1.5, above the floor. *)
C15_Witness ==
    /\ backoff_call.d # NoTime
    /\ 10 * backoff_call.d = BackoffUnit * backoff_call.cfg.max_backoff * 2 * 15
    /\ backoff_call.d > BackoffUnit * backoff_call.cfg.initial_backoff

(* C16 as claimed: with everything else fixed, _calculate_smart_backoff at  *)
(* retry_count = n + 1 returns at least what it returns at retry_count = n, *)
(* for every positive backoff_multiplier.                                   *)
C16_MonotoneInRetryCount ==
    (backoff_call.d # NoTime /\ backoff_call.d_prev # NoTime)
        => backoff_call.d >= backoff_call.d_prev

(* C16 amended: the same for every backoff_multiplier >= 1. *)
C16_MonotoneInRetryCountFromOne ==
    (/\ backoff_call.d # NoTime
     /\ backoff_call.d_prev # NoTime
     /\ backoff_call.cfg.backoff_multiplier.num >= backoff_call.cfg.backoff_multiplier.den)
        => backoff_call.d >= backoff_call.d_prev

(* C16's case: with a backoff_multiplier of 1.5, the call at retry_count    *)
(* n + 1 returned more than the call at retry_count n.                      *)
C16_Witness ==
    /\ backoff_call.d # NoTime
    /\ backoff_call.d_prev # NoTime
    /\ backoff_call.cfg.backoff_multiplier = [num |-> 3, den |-> 2]
    /\ backoff_call.d > backoff_call.d_prev

(* C17: for an existing RetryStats, _calculate_smart_backoff returns        *)
(* max(initial_backoff, min(initial_backoff * backoff_multiplier ^          *)
(* retry_count, max_backoff) * P * H * (1 - min(0.5, success_streak *       *)
(* 0.1))), P = 1.5 when now is at most 30 minutes after a recorded peak     *)
(* and 1 otherwise, H = 2 when is_overloaded and 1 otherwise (both sides    *)
(* times 1000 * den ^ retry_count).                                         *)
C17_BackoffFormula ==
    (backoff_call.d # NoTime /\ retry_stats[1].present) =>
        LET cfg == backoff_call.cfg
            rc == retry_stats[1].retry_count
            dn == Pow(cfg.backoff_multiplier.den, rc)
            P10 == IF \E i \in 1..Len(peak_usage_times) :
                          /\ now - peak_usage_times[i] >= 0
                          /\ now - peak_usage_times[i] <= 30 * 60
                   THEN 15 ELSE 10
            H == IF server_status.is_overloaded THEN 2 ELSE 1
            tenths == IF retry_stats[1].success_streak >= 5 THEN 5
                      ELSE retry_stats[1].success_streak
            base == Min(cfg.initial_backoff * Pow(cfg.backoff_multiplier.num, rc),
                        cfg.max_backoff * dn)
        IN 100 * dn * backoff_call.d
             = BackoffUnit * Max(100 * dn * cfg.initial_backoff,
                                 base * P10 * H * (10 - tenths))

(* C17's case: the product passed max_backoff, the peak and the overload    *)
(* multipliers and a discount of 0.3 applied, and the result is above the   *)
(* floor.                                                                   *)
C17_Witness ==
    /\ backoff_call.d # NoTime
    /\ retry_stats[1].present
    /\ retry_stats[1].success_streak = 3
    /\ server_status.is_overloaded
    /\ IsPeakTime(peak_usage_times, now)
    /\ backoff_call.cfg.initial_backoff
          * Pow(backoff_call.cfg.backoff_multiplier.num, retry_stats[1].retry_count)
          > backoff_call.cfg.max_backoff
              * Pow(backoff_call.cfg.backoff_multiplier.den, retry_stats[1].retry_count)
    /\ backoff_call.d > BackoffUnit * backoff_call.cfg.initial_backoff

(* C18: wait_if_needed(tokens) called while no record is inside the window  *)
(* returns without suspending, whatever tokens is, tokens >                 *)
(* tokens_per_minute included.                                              *)
C18_EmptyLedgerNeverWaits ==
    [][\A f \in LedgerFlows :
          (/\ pc[f] = "idle"
           /\ call'[f] # call[f]
           /\ call'[f].at = now
           /\ \A i \in 1..Len(recorded) : now - recorded[i].timestamp >= window_size)
          => (pc'[f] = "idle" /\ ~call'[f].slept /\ call'[f].done_at = now)]_vars

(* C18's case: wait_if_needed(150), above tokens_per_minute, has returned   *)
(* at once at a time when every record ever made had left the window.       *)
C18_Witness ==
    \E f \in LedgerFlows :
        /\ call[f] = [tokens |-> 150, at |-> now, slept |-> FALSE, done_at |-> now]
        /\ recorded # <<>>
        /\ \A i \in 1..Len(recorded) : now - recorded[i].timestamp >= window_size

(* C19: only status code 529 moves the server status toward overloaded:     *)
(* record_error(code) with another code leaves error_count, is_overloaded   *)
(* and last_error_time as they are, and so does a failed operation in       *)
(* smart_retry whose exception has no status code or another code, while    *)
(* that failure still raises retry_count by one.                            *)
C19_OnlyOverloadCodeCounts ==
    /\ [](\A code \in ErrorCodes \ {NoCode, OVERLOAD_CODE} :
             LET after == RecordError(server_status, code, now)
             IN /\ after.error_count = server_status.error_count
                /\ after.is_overloaded = server_status.is_overloaded
                /\ after.last_error_time = server_status.last_error_time)
    /\ [][\A f \in Flows :
             (/\ history'[f] = Append(history[f], "fail")
              /\ op_result'[f].code # OVERLOAD_CODE)
             => /\ server_status'.error_count = server_status.error_count
                /\ server_status'.is_overloaded = server_status.is_overloaded
                /\ server_status'.last_error_time = server_status.last_error_time
                /\ retry_stats'[f].retry_count = retry_stats[f].retry_count + 1]_vars

(* C19's case: after a failure with code 529, a failure with code 500 has   *)
(* been counted as the second retry and the server status still shows one   *)
(* error.                                                                   *)
C19_Witness ==
    \E f \in Flows :
        /\ history[f] = <<"fail", "fail">>
        /\ op_result[f] = [outcome |-> "fail", code |-> 500]
        /\ retry_stats[f].retry_count = 2
        /\ server_status.error_count = 1
        /\ server_status.last_error_time # NoTime

(* C20: delete_feedback(id) whose unlink does not raise returns True and    *)
(* removes the cache entry and the file when a feedback with that id is     *)
(* stored, and returns False, leaving the store as it was, when none is.    *)
C20_DeleteReportsWhetherStored ==
    (storage_op.op = "delete" /\ storage_op.io = "ok") =>
        /\ cache[storage_op.id] = NoFeedback
        /\ storage_files[storage_op.id] = NoFile
        /\ (storage_op.was_cached /\ storage_op.had_file) => storage_op.result
        /\ (~storage_op.was_cached /\ ~storage_op.had_file) => ~storage_op.result

(* C21: can_make_request(tokens) returns whether the window usage plus      *)
(* tokens is within tokens_per_minute, get_available_tokens() returns       *)
(* max(0, tokens_per_minute - window usage), and both only drop the expired *)
(* records from the deque: the records made, the peak window, the retry     *)
(* statistics, concurrent_requests and the server status stay as they were. *)
C21_ProjectionsOnlyRead ==
    /\ [](ledger_ret.op = "can_make_request"
            => ledger_ret.result
                 = (WindowSum(recorded, now) + ledger_ret.tokens <= tokens_per_minute))
    /\ [](ledger_ret.op = "get_available_tokens"
            => ledger_ret.result
                 = (IF WindowSum(recorded, now) >= tokens_per_minute THEN 0
                    ELSE tokens_per_minute - WindowSum(recorded, now)))
    /\ [][ledger_ret'.op # "none"
            => /\ usage_history'
                    = SelectSeq(usage_history, LAMBDA u : now - u.timestamp < window_size)
               /\ UNCHANGED <<peak_usage_times, recorded, retry_stats,
                              concurrent_requests, server_status>>]_vars

(* C21's case: can_make_request has answered False on a ledger over budget, *)
(* and dropped an expired record on the way.                                *)
C21_Witness ==
    /\ ledger_ret.op = "can_make_request"
    /\ ledger_ret.result = FALSE
    /\ usage_history # <<>>
    /\ Len(usage_history) < Len(recorded)
    /\ now - recorded[1].timestamp = window_size

(* C22: _calculate_smart_backoff changes nothing: the RetryStats of every   *)
(* request_id, the server status, the peak window and the usage ledger are  *)
(* the same after the call as before, and for a request_id without          *)
(* RetryStats it returns initial_backoff and creates none.                  *)
C22_BackoffCallIsPure ==
    /\ []((backoff_call.d # NoTime /\ ~retry_stats[1].present)
            => backoff_call.d = BackoffUnit * backoff_call.cfg.initial_backoff)
    /\ [][backoff_call'.d # NoTime
            => UNCHANGED <<retry_stats, server_status, peak_usage_times,
                           usage_history, recorded>>]_vars

(* C22's case: the call was made for a request_id without RetryStats while  *)
(* the server is overloaded and the time is peak time, on a handler whose   *)
(* max_backoff is above its initial_backoff.                                *)
C22_Witness ==
    /\ backoff_call.d # NoTime
    /\ ~retry_stats[1].present
    /\ server_status.is_overloaded
    /\ IsPeakTime(peak_usage_times, now)
    /\ backoff_call.cfg.max_backoff > backoff_call.cfg.initial_backoff

(* C23: right after every update of the peak window (each record_usage and  *)
(* each wait_if_needed call) the window holds no timestamp older than 24    *)
(* hours, and it is the earlier window without those, with the current time *)
(* appended exactly when the window usage is strictly above 80% of          *)
(* tokens_per_minute.                                                       *)
C23_PeakWindowUpdate ==
    [][(\/ recorded' # recorded
        \/ \E f \in LedgerFlows :
              /\ pc[f] = "idle"
              /\ call'[f].at = now
              /\ (call'[f] # call[f] \/ peak_usage_times' # peak_usage_times))
       => LET usage == WindowSum(recorded', now)
              kept == SelectSeq(peak_usage_times, LAMBDA p : now - p <= 24 * 3600)
          IN /\ \A i \in 1..Len(peak_usage_times') :
                    now - peak_usage_times'[i] <= 24 * 3600
             /\ peak_usage_times'
                   = IF 5 * usage > 4 * tokens_per_minute
                     THEN Append(kept, now) ELSE kept]_vars

(* C23's case: an update made 24 hours and a second after a peak has        *)
(* dropped that peak and appended the current time.                         *)
C23_Witness ==
    /\ now = 24 * 3600 + 1
    /\ recorded = <<[timestamp |-> 0, tokens |-> 90], [timestamp |-> now, tokens |-> 90]>>
    /\ peak_usage_times = <<now>>

(* C24: after any sequence of successful save_feedback, update_feedback,    *)
(* delete_feedback and clear_storage calls, a new FeedbackStorage opened on *)
(* the same directory holds the same feedback ids as the first one, with    *)
(* the same id, type and severity for each.                                 *)
C24_ReopenedStorageEqualsCache ==
    \A id \in FeedbackIds :
        /\ (LoadCache(storage_files)[id] = NoFeedback) <=> (cache[id] = NoFeedback)
        /\ LoadCache(storage_files)[id].id = cache[id].id
        /\ LoadCache(storage_files)[id].type = cache[id].type
        /\ LoadCache(storage_files)[id].severity = cache[id].severity

(* C24's case: a new FeedbackStorage was opened and holds two feedbacks,    *)
(* one of high severity and one of type PERFORMANCE.                        *)
C24_Witness ==
    /\ storage_op.op = "open"
    /\ cache["fb1"] = [id |-> "fb1", type |-> "EXECUTION", severity |-> "HIGH"]
    /\ cache["fb2"] = [id |-> "fb2", type |-> "PERFORMANCE", severity |-> "MEDIUM"]

(* C25: when wait_if_needed(tokens) returns, with tokens <=                 *)
(* tokens_per_minute and a ledger that is not empty, the request fits the   *)
(* budget: the window usage plus tokens is at most tokens_per_minute at     *)
(* that moment (stated for the calls during which nobody recorded usage:    *)
(* no record is later than the second of the call).                         *)
C25_FitsBudgetOnReturn ==
    [][\A f \in LedgerFlows :
          (/\ call'[f] # call[f]
           /\ call'[f].done_at = now
           /\ call'[f].tokens <= tokens_per_minute
           /\ usage_history' # <<>>
           /\ \A i \in 1..Len(recorded) : recorded[i].timestamp <= call'[f].at)
          => GetCurrentUsage(usage_history', now) + call'[f].tokens
                <= tokens_per_minute]_vars

(* C26: when every flow uses the ledger by the protocol wait_if_needed(t)   *)
(* followed by record_usage(t), with t <= tokens_per_minute, the total of   *)
(* the window, get_current_usage(), never exceeds tokens_per_minute, in any *)
(* interleaving of the flows.                                               *)
C26_ProtocolKeepsBudget ==
    GetCurrentUsage(usage_history, now) <= tokens_per_minute

(* C27: a smart_retry call holds a slot only while its operation executes:  *)
(* concurrent_requests is the number of calls between the return of         *)
(* wait_for_available_slot and the completion of release_slot, so a call in *)
(* the cooldown sleep or in the backoff sleep holds no slot.                *)
C27_SlotsAreExecutingRuns ==
    LET holders == {f \in Flows : pc[f] \in {"executing", "release_wait"}}
    IN /\ concurrent_requests = Cardinality(holders)
       /\ \A f \in Flows : pc[f] \in {"cooldown", "backoff"} => f \notin holders

(* One call executes its operation while another sleeps its backoff and a   *)
(* third sleeps the cooldown: one slot is taken.                            *)
C27_Witness ==
    /\ \E f \in Flows : pc[f] = "backoff"
    /\ \E f \in Flows : pc[f] = "cooldown"
    /\ \E f \in Flows : pc[f] = "executing"
    /\ concurrent_requests = 1

(* C28: with at most max_concurrent smart_retry calls in progress, every    *)
(* operation ending and the clock advancing again and again, every          *)
(* smart_retry call eventually returns or raises, under fair scheduling.    *)
C28_EveryRunTerminates ==
    ([]<><<\E d \in LiveTicks : TickLive(d)>>_vars)
        => \A f \in LiveFlows : (pc[f] \notin {"idle", "done"}) ~> (pc[f] = "done")

(* C29: the backoff smart_retry sleeps after a failed attempt is computed   *)
(* from success_streak = 0 and the retry_count already incremented, so no   *)
(* success-streak discount shortens it: the flow sleeps                     *)
(* max(initial_backoff, min(initial_backoff * backoff_multiplier ^          *)
(* retry_count, max_backoff) * P * H) seconds with retry_count >= 1, where  *)
(* P is 1.5 when a peak was seen in the last 30 minutes and H is 2 when the *)
(* server is marked overloaded (durations in hundredths of a second).       *)
C29_SleptBackoffHasNoDiscount ==
    [][\A f \in RetryFlows :
          (pc'[f] = "backoff" /\ wake'[f] # wake[f])
          => LET st == retry_stats'[f]
                 base == Min(100 * initial_backoff * Pow(backoff_multiplier, st.retry_count),
                             100 * max_backoff)
                 p2 == IF \E i \in 1..Len(peak_usage_times) :
                              now - peak_usage_times[i] <= 60 * PEAK_MINUTES
                       THEN 3 ELSE 2
                 h == IF server_status'.is_overloaded THEN 2 ELSE 1
             IN /\ st.success_streak = 0
                /\ st.retry_count >= 1
                /\ wake'[f] - 100 * now
                      = Max(100 * initial_backoff, (base * p2 * h) \div 2)]_vars

(* A call made after a successful one (a success streak had built up) has   *)
(* failed twice and sleeps its backoff, at a peak time, with the server     *)
(* marked overloaded.                                                       *)
C29_Witness ==
    /\ pc[1] = "backoff"
    /\ ~fresh[1]
    /\ retry_stats[1].retry_count = 2
    /\ peak_usage_times # <<>>
    /\ server_status.is_overloaded
    /\ wake[1] - 100 * now = 1200

(* C30: a check_server_status call made while is_overloaded is false and    *)
(* fewer than server_check_interval seconds after last_check changes no     *)
(* field of the ServerStatus (last_check, is_overloaded, error_count,        *)
(* last_error_time) and returns true; a call re-evaluates (changes a field)  *)
(* only when the interval has elapsed or is_overloaded is true.              *)
C30_NoReevaluationWithinInterval ==
    /\ [][(/\ CheckStatusCall
           /\ ~server_status.is_overloaded
           /\ now - server_status.last_check < server_check_interval)
          => /\ server_status' = server_status
             /\ last_op'.result = TRUE]_vars
    /\ [][(CheckStatusCall /\ server_status' # server_status)
          => \/ now - server_status.last_check >= server_check_interval
             \/ server_status.is_overloaded]_vars

(* Such a call, 30 seconds after the check that found the server healthy    *)
(* again, with an error count that a re-evaluation would have lowered: it   *)
(* returned true and left last_check and error_count as they were.          *)
C30_Witness ==
    /\ last_op.op = "check"
    /\ last_op.result = TRUE
    /\ last_op.at - last_op.found_last_check = 30
    /\ server_status.last_check = last_op.found_last_check
    /\ server_status.error_count = 1
    /\ last_op.at - server_status.last_error_time > DECAY_AFTER_SECONDS

(* C31: with the smart_retry calls of one request_id serialized,            *)
(* success_streak is the number of successful executions of the operation   *)
(* since the most recent failed one (0 when the latest execution failed),   *)
(* and retry_count is 0 right after every successful execution.  By         *)
(* induction on the executions: the streak starts at 0, a successful        *)
(* execution adds 1 to it and leaves retry_count at 0, a failed execution   *)
(* sets it to 0, and no other step changes it.                              *)
C31_StreakCountsSuccessesSinceFailure ==
    /\ [](\A f \in SeqFlows :
            /\ ~retry_stats[f].present => retry_stats[f].success_streak = 0
            /\ (history[f] # <<>> /\ history[f][Len(history[f])] = "fail")
                  => retry_stats[f].success_streak = 0
            /\ (history[f] # <<>> /\ history[f][Len(history[f])] = "ok")
                  => retry_stats[f].retry_count = 0)
    /\ [][\A f \in SeqFlows :
            LET before == retry_stats[f].success_streak
                after == retry_stats'[f].success_streak
            IN IF history'[f] = Append(history[f], "ok")
               THEN after = before + 1 /\ retry_stats'[f].retry_count = 0
               ELSE IF history'[f] = Append(history[f], "fail")
               THEN after = 0
               ELSE after = before]_vars

(* A call on a request_id whose previous call succeeded has failed once and *)
(* then succeeded: the streak counts that one success.                      *)
C31_Witness ==
    /\ pc[1] = "done"
    /\ ~fresh[1]
    /\ history[1] = <<"fail", "ok">>
    /\ retry_stats[1].success_streak = 1
    /\ retry_stats[1].retry_count = 0

(* C32: once check_server_status has returned true with error_count = 0,    *)
(* and no error is recorded afterwards, the next check_server_status call   *)
(* (and so every later one) returns true as well, however much time has     *)
(* passed, more than 24 hours included.                                     *)
C32_HealthyStaysHealthy ==
    [][(/\ CheckStatusCall
        /\ last_op.op = "check"
        /\ last_op.result = TRUE
        /\ server_status.error_count = 0)
       => last_op'.result = TRUE]_vars

(* C33: in execute_subtasks, when the execution of a subtask raises and     *)
(* handle_error returns True, the same subtask is executed again before the *)
(* next one is started; so when the call returns normally the results list  *)
(* holds exactly one entry per subtask, in order.                           *)
C33_OneResultPerSubtask ==
    /\ [](runner.status = "returned"
            => runner.results = [k \in 1..runner.n |-> k])
    /\ [][(/\ runner.status = "running"
           /\ runner'.status = "running"
           /\ Len(runner'.results) = Len(runner.results)
           /\ runner'.attempt_count # runner.attempt_count)
          => runner'.i = runner.i]_vars

(* C34: when save_feedback(feedback) returns False (the file could not be   *)
(* written) the store is unchanged: get_feedback(feedback.id) and           *)
(* get_all_feedbacks(), which read the cache, return what they returned     *)
(* before the call.                                                         *)
C34_FailedSaveLeavesStore ==
    [][((\E fb \in Feedbacks, io \in SaveOutcomes : SaveFeedbackCall(fb, io))
        /\ storage_op'.result = FALSE)
       => cache' = cache]_vars

====
